---------------------------- MODULE Spec2Model ----------------------------
(***************************************************************************)
(* Model of the Windows raw-input native event filter of 86Box             *)
(* (src/qt/qt_winrawinputfilter.cpp): nativeEventFilter, handle_input,     *)
(* keyboard_handle and mouse_handle.                                       *)
(*                                                                         *)
(* One message is dispatched at a time (the filter runs on the UI thread). *)
(* The calls a dispatch makes to its collaborators (keyboard_input,        *)
(* checkFullscreenHotkey, mouse_set_buttons_ex, mouse_set_z, mouse_scale,  *)
(* SetCursorPos, win_joystick_handle) are recorded, in order, in `calls';  *)
(* `msg' is the message being dispatched and `locals' the handler's        *)
(* working values.  DispatchReturn ends the dispatch and clears them.      *)
(***************************************************************************)
EXTENDS Integers, Sequences, FiniteSets, TLC

VARIABLES
    scancode_map,     \* uint16_t scancode_map[]: the remap table (read only here)
    rctrl_is_lalt,    \* configuration flag: translate right CTRL to left ALT
    mouse_capture,    \* pointer capture flag read by handle_input
    menus_open,       \* WindowsRawInputFilter::menus_open
    main_active,      \* window->isActiveWindow()
    renderers,        \* window->renderers: each null, inactive or active
    window_rect,      \* what GetWindowRect returns for window->winId()
    mouse_buttons,    \* the emulated button mask behind mouse_get/set_buttons_ex
    x,                \* mouse_handle: static int x
    y,                \* mouse_handle: static int y
    last_abs,         \* history: the sample of the last absolute report
                      \* mouse_handle handled, <<>> when there was none
    msg,              \* the message being dispatched, NoMsg when idle
    calls,            \* the collaborator calls of this dispatch, in order
    locals,           \* working values of the handler that ran
    ret               \* nativeEventFilter's return value for this dispatch

vars == <<scancode_map, rctrl_is_lalt, mouse_capture, menus_open, main_active,
          renderers, window_rect, mouse_buttons, x, y, last_abs, msg, calls, locals, ret>>

(***************************************************************************)
(* The records of the model.  Every record is built by one of these        *)
(* constructors, with its fields in this order.                            *)
(***************************************************************************)
NoMsg == [kind |-> "none"]
NoLocals == [handler |-> "none"]
NoData == [none |-> TRUE]

\* RAWKEYBOARD: the fields keyboard_handle reads
RAWKEYBOARD(MakeCode, Flags) == [MakeCode |-> MakeCode, Flags |-> Flags]

\* RAWMOUSE: the fields mouse_handle reads
RAWMOUSE(usFlags, usButtonFlags, usButtonData, lLastX, lLastY) ==
    [usFlags |-> usFlags, usButtonFlags |-> usButtonFlags,
     usButtonData |-> usButtonData, lLastX |-> lLastX, lLastY |-> lLastY]

\* RAWINPUT as handle_input reads it; ok: the second GetRawInputData call
\* returned the size the first one announced
RAWINPUT(ok, dwType, data) == [ok |-> ok, dwType |-> dwType, data |-> data]

\* What nativeEventFilter is called with: eventType and the fields of MSG
MSG(eventType, message, wParam, raw) ==
    [kind |-> "msg", eventType |-> eventType, message |-> message,
     wParam |-> wParam, raw |-> raw]

\* RECT
RECT(left, top, right, bottom) ==
    [left |-> left, top |-> top, right |-> right, bottom |-> bottom]

\* keyboard_handle's working values on the E1 branch and on the normal branch
LocalsE1(scancode) ==
    [handler |-> "keyboard_handle", scancode |-> scancode, branch |-> "E1"]

LocalsKey(prefixed, canonical, remapped, scancode) ==
    [handler |-> "keyboard_handle", scancode |-> scancode, branch |-> "normal",
     prefixed |-> prefixed, canonical |-> canonical, remapped |-> remapped]

\* mouse_handle's working values; read: what mouse_get_buttons_ex returned,
\* prev_abs: last_abs on entry
LocalsMouse(read, bmask, delta_x, delta_y, delta_z, prev_abs) ==
    [handler |-> "mouse_handle", read |-> read, bmask |-> bmask,
     delta_x |-> delta_x, delta_y |-> delta_y, delta_z |-> delta_z,
     prev_abs |-> prev_abs]

LocalsJoystick == [handler |-> "win_joystick_handle"]

\* What a dispatch reads and writes besides the configuration: the emulated
\* button mask, mouse_handle's statics, and the record of the dispatch
World ==
    [mouse_buttons |-> mouse_buttons, x |-> x, y |-> y, last_abs |-> last_abs,
     calls |-> <<>>, locals |-> NoLocals]

(***************************************************************************)
(* Windows and program constants (decimal; the hexadecimal value the       *)
(* source writes is given beside each).                                    *)
(***************************************************************************)
RI_KEY_BREAK == 1
RI_KEY_E0 == 2
RI_KEY_E1 == 4
\* 0x1D: the make code of CTRL, and of the E1 1D (Pause) sequence
MAKE_1D == 29
\* 0x100: the slot of scancode_map that holds the mapping of E1 1D
SC_E1_1D == 256
\* 0x100: the bit marking an E0-prefixed scan code
E0_BIT == 256
\* 0x11d: right CTRL
SC_RCTRL == 285
\* 0x038: left ALT
SC_LALT == 56
\* 0xFFFF: the invalid scan code
SC_INVALID == 65535
\* 2^16: the width of USHORT / uint16_t
USHORT_RANGE == 65536
\* sizeof(scancode_map) / sizeof(scancode_map[0]); the array is declared in
\* <86box/keyboard.h>, which is not part of the source at hand: the table is
\* indexed by the 9-bit codes 0x000..0x1FF
ScancodeMapLen == 512

(***************************************************************************)
(* Bit operations on non-negative integers: C's &, | and & ~.              *)
(***************************************************************************)
RECURSIVE BitAnd(_, _)
BitAnd(a, b) ==
    IF a = 0 \/ b = 0 THEN 0
    ELSE (a % 2) * (b % 2) + 2 * BitAnd(a \div 2, b \div 2)

BitOr(a, b) == a + b - BitAnd(a, b)

BitClear(a, m) == a - BitAnd(a, m)

HasFlag(flags, f) == BitAnd(flags, f) # 0

(***************************************************************************)
(* keyboard_handle                                                         *)
(***************************************************************************)
\* The call keyboard_input(!(rawKB.Flags & RI_KEY_BREAK), scancode)
KeyboardInputCall(flags, scancode) ==
    <<"keyboard_input", IF HasFlag(flags, RI_KEY_BREAK) THEN 0 ELSE 1, scancode>>

\* faulty variant: the call without the 0xFFFF guard
EmitKeyUnguarded(flags, scancode) == <<KeyboardInputCall(flags, scancode)>>

\* if (scancode != 0xFFFF) keyboard_input(...), on both branches
EmitKey(flags, scancode) ==
    IF scancode # SC_INVALID THEN <<KeyboardInputCall(flags, scancode)>> ELSE <<>>

\* faulty variant: every E1 make code is translated through slot 0x100
E1ScancodeAnyMake(makeCode) == scancode_map[SC_E1_1D]

\* faulty variant: E1 1D becomes 0x100 without the table lookup
E1ScancodeNoLookup(makeCode) == IF makeCode = MAKE_1D THEN SC_E1_1D ELSE SC_INVALID

\* E1 branch: E1 1D is translated through slot 0x100, anything else is invalid
E1Scancode(makeCode) ==
    IF makeCode = MAKE_1D THEN scancode_map[SC_E1_1D] ELSE SC_INVALID

\* faulty variant: 0x100 is added instead of or-ed in
PrefixedScancodeAdd(makeCode, flags) ==
    IF HasFlag(flags, RI_KEY_E0) THEN (makeCode + E0_BIT) % USHORT_RANGE ELSE makeCode

\* scancode = rawKB.MakeCode; if (rawKB.Flags & RI_KEY_E0) scancode |= 0x100;
PrefixedScancode(makeCode, flags) ==
    IF HasFlag(flags, RI_KEY_E0) THEN BitOr(makeCode, E0_BIT) ELSE makeCode

\* convert_scan_code is defined outside the source at hand.  The specification
\* gives the canonical code of a non-E1 report as makeCode | (0x100 if E0), so
\* the conversion leaves the prefixed code as it is.
convert_scan_code(scancode) == scancode

\* faulty variant: a code outside the table is made the invalid code
RemapDropOutOfRange(scancode) ==
    IF scancode < ScancodeMapLen
    THEN (IF scancode # scancode_map[scancode] THEN scancode_map[scancode]
          ELSE scancode)
    ELSE SC_INVALID

\* faulty variant: the table is read one slot too far
RemapShifted(scancode) ==
    IF scancode + 1 < ScancodeMapLen THEN scancode_map[scancode + 1] ELSE scancode

\* Remap according to the table when the code indexes it
Remap(scancode) ==
    IF scancode < ScancodeMapLen /\ scancode # scancode_map[scancode]
    THEN scancode_map[scancode]
    ELSE scancode

\* if ((scancode == 0x11d) && rctrl_is_lalt) scancode = 0x038;
CtrlAlt(scancode) ==
    IF scancode = SC_RCTRL /\ rctrl_is_lalt THEN SC_LALT ELSE scancode

\* faulty variant: the hotkey check is skipped when no event was emitted
keyboard_handleHotkeyOnEmit(w, rawKB) ==
    IF HasFlag(rawKB.Flags, RI_KEY_E1)
    THEN LET scancode == E1Scancode(rawKB.MakeCode)
         IN  [w EXCEPT
                !.calls  = @ \o EmitKey(rawKB.Flags, scancode),
                !.locals = LocalsE1(scancode)]
    ELSE LET prefixed  == PrefixedScancode(rawKB.MakeCode, rawKB.Flags)
             canonical == convert_scan_code(prefixed)
             remapped  == Remap(canonical)
             scancode  == CtrlAlt(remapped)
         IN  [w EXCEPT
                !.calls  = @ \o EmitKey(rawKB.Flags, scancode)
                             \o (IF scancode # SC_INVALID
                                 THEN <<<<"checkFullscreenHotkey">>>> ELSE <<>>),
                !.locals = LocalsKey(prefixed, canonical, remapped, scancode)]

\* keyboard_handle(raw)
keyboard_handle(w, rawKB) ==
    IF HasFlag(rawKB.Flags, RI_KEY_E1)
    THEN LET scancode == E1Scancode(rawKB.MakeCode)
         IN  [w EXCEPT
                !.calls  = @ \o EmitKey(rawKB.Flags, scancode),
                !.locals = LocalsE1(scancode)]
    ELSE LET prefixed  == PrefixedScancode(rawKB.MakeCode, rawKB.Flags)
             canonical == convert_scan_code(prefixed)
             remapped  == Remap(canonical)
             scancode  == CtrlAlt(remapped)
         IN  [w EXCEPT
                !.calls  = @ \o EmitKey(rawKB.Flags, scancode)
                             \o <<<<"checkFullscreenHotkey">>>>,
                !.locals = LocalsKey(prefixed, canonical, remapped, scancode)]

(***************************************************************************)
(* mouse_handle                                                            *)
(***************************************************************************)
RI_MOUSE_LEFT_BUTTON_DOWN == 1
RI_MOUSE_LEFT_BUTTON_UP == 2
RI_MOUSE_RIGHT_BUTTON_DOWN == 4
RI_MOUSE_RIGHT_BUTTON_UP == 8
RI_MOUSE_MIDDLE_BUTTON_DOWN == 16
RI_MOUSE_MIDDLE_BUTTON_UP == 32
RI_MOUSE_BUTTON_4_DOWN == 64
RI_MOUSE_BUTTON_4_UP == 128
RI_MOUSE_BUTTON_5_DOWN == 256
RI_MOUSE_BUTTON_5_UP == 512
RI_MOUSE_WHEEL == 1024
MOUSE_MOVE_ABSOLUTE == 1
\* the bits of the emulated button mask
BTN_LEFT == 1
BTN_RIGHT == 2
BTN_MIDDLE == 4
BTN_4 == 8
BTN_5 == 16
\* one wheel detent in raw units
WHEEL_UNITS == 120
\* the divisor of absolute-mode differences
ABS_DIVISOR == 25
\* 2^15: (SHORT) of a USHORT at or above it is negative
SHORT_LIMIT == 32768

\* division rounding toward minus infinity, which C's is not
FloorDiv(a, b) == a \div b

\* C's integer division for a positive divisor: truncation toward zero
CDiv(a, b) == IF a >= 0 THEN a \div b ELSE -((-a) \div b)

\* (SHORT) of a USHORT value
ToSHORT(u) == IF u >= SHORT_LIMIT THEN u - USHORT_RANGE ELSE u

\* faulty variant: DOWN assigns the mask (b = bit) instead of setting the bit
ButtonStepWholeMask(b, flags, down, up, bit) ==
    IF HasFlag(flags, down) THEN bit
    ELSE IF HasFlag(flags, up) THEN BitClear(b, bit)
    ELSE b

\* if (flags & DOWN) b |= bit; else if (flags & UP) b &= ~bit;
ButtonStep(b, flags, down, up, bit) ==
    IF HasFlag(flags, down) THEN BitOr(b, bit)
    ELSE IF HasFlag(flags, up) THEN BitClear(b, bit)
    ELSE b

\* the five steps, in the order of the source: left, middle, right, 4, 5
Buttons(b, flags) ==
    LET b1 == ButtonStep(b,  flags, RI_MOUSE_LEFT_BUTTON_DOWN,
                         RI_MOUSE_LEFT_BUTTON_UP, BTN_LEFT)
        b2 == ButtonStep(b1, flags, RI_MOUSE_MIDDLE_BUTTON_DOWN,
                         RI_MOUSE_MIDDLE_BUTTON_UP, BTN_MIDDLE)
        b3 == ButtonStep(b2, flags, RI_MOUSE_RIGHT_BUTTON_DOWN,
                         RI_MOUSE_RIGHT_BUTTON_UP, BTN_RIGHT)
        b4 == ButtonStep(b3, flags, RI_MOUSE_BUTTON_4_DOWN,
                         RI_MOUSE_BUTTON_4_UP, BTN_4)
    IN  ButtonStep(b4, flags, RI_MOUSE_BUTTON_5_DOWN, RI_MOUSE_BUTTON_5_UP, BTN_5)

\* faulty variant: the quotient is rounded down
WheelDeltaFloor(usButtonData) == FloorDiv(ToSHORT(usButtonData), WHEEL_UNITS)

\* delta_z = (SHORT) state.usButtonData / 120;
WheelDelta(usButtonData) == CDiv(ToSHORT(usButtonData), WHEEL_UNITS)

\* faulty variant: the quotient is rounded down
AbsDeltaFloor(cur, prev) == FloorDiv(cur - prev, ABS_DIVISOR)

\* delta_x = (state.lLastX - x) / 25;  the samples of the model keep the
\* difference inside int
AbsDelta(cur, prev) == CDiv(cur - prev, ABS_DIVISOR)

\* faulty variant: a relative report is measured against the stored sample too
MotionDeltaFromStored(abs, cur, prev) == AbsDelta(cur, prev)

\* if (state.usFlags & MOUSE_MOVE_ABSOLUTE) delta_x = (state.lLastX - x) / 25;
\* else delta_x = state.lLastX;   likewise delta_y
MotionDelta(abs, cur, prev) == IF abs THEN AbsDelta(cur, prev) ELSE cur

\* faulty variant: every report is stored, a relative one too
StoredSampleAlways(abs, cur, prev) == cur

\* x = state.lLastX; in the absolute branch only; likewise y
StoredSample(abs, cur, prev) == IF abs THEN cur ELSE prev

\* faulty variant: half the width and height, the window's origin left out
RectCenterNoOrigin(rect) ==
    <<CDiv(rect.right - rect.left, 2), CDiv(rect.bottom - rect.top, 2)>>

\* int left = rect.left + (rect.right - rect.left) / 2; likewise top
RectCenter(rect) ==
    <<rect.left + CDiv(rect.right - rect.left, 2),
      rect.top + CDiv(rect.bottom - rect.top, 2)>>

\* mouse_handle(raw); rect is what GetWindowRect returns
mouse_handle(w, state, rect) ==
    LET read    == w.mouse_buttons
        b       == Buttons(read, state.usButtonFlags)
        wheel   == HasFlag(state.usButtonFlags, RI_MOUSE_WHEEL)
        delta_z == IF wheel THEN WheelDelta(state.usButtonData) ELSE 0
        abs     == HasFlag(state.usFlags, MOUSE_MOVE_ABSOLUTE)
        delta_x == MotionDelta(abs, state.lLastX, w.x)
        delta_y == MotionDelta(abs, state.lLastY, w.y)
        center  == RectCenter(rect)
    IN  [mouse_buttons |-> b,
         x        |-> StoredSample(abs, state.lLastX, w.x),
         y        |-> StoredSample(abs, state.lLastY, w.y),
         last_abs |-> IF abs THEN <<state.lLastX, state.lLastY>> ELSE w.last_abs,
         calls    |-> w.calls
                      \o <<<<"mouse_get_buttons_ex", read>>,
                           <<"mouse_set_buttons_ex", b>>>>
                      \o (IF wheel THEN <<<<"mouse_set_z", delta_z>>>> ELSE <<>>)
                      \o <<<<"mouse_scale", delta_x, delta_y>>,
                           <<"SetCursorPos", center[1], center[2]>>>>,
         locals   |-> LocalsMouse(read, b, delta_x, delta_y, delta_z, w.last_abs)]

(***************************************************************************)
(* handle_input and nativeEventFilter                                      *)
(***************************************************************************)
RIM_TYPEMOUSE == 0
RIM_TYPEKEYBOARD == 1
RIM_TYPEHID == 2
\* 0x00FF
WM_INPUT == 255
\* 0x0104
WM_SYSKEYDOWN == 260
\* 0x73
VK_F4 == 115

\* The number of renderer windows of the main window
NumRenderers == 2
\* How far menus_open is followed from 0, upwards and downwards
MaxMenus == 1

\* faulty variant: mouse reports are handled whether the pointer is captured
\* or not
handle_inputUngated(w, raw) ==
    IF ~raw.ok THEN w
    ELSE IF raw.dwType = RIM_TYPEKEYBOARD THEN keyboard_handle(w, raw.data)
    ELSE IF raw.dwType = RIM_TYPEMOUSE
         THEN mouse_handle(w, raw.data, window_rect)
    ELSE IF raw.dwType = RIM_TYPEHID
         THEN [w EXCEPT !.calls = @ \o <<<<"win_joystick_handle">>>>,
                        !.locals = LocalsJoystick]
    ELSE w

\* handle_input(input); raw.ok: the second GetRawInputData returned size
handle_input(w, raw) ==
    IF ~raw.ok THEN w
    ELSE IF raw.dwType = RIM_TYPEKEYBOARD THEN keyboard_handle(w, raw.data)
    ELSE IF raw.dwType = RIM_TYPEMOUSE
         THEN IF mouse_capture THEN mouse_handle(w, raw.data, window_rect) ELSE w
    ELSE IF raw.dwType = RIM_TYPEHID
         THEN [w EXCEPT !.calls = @ \o <<<<"win_joystick_handle">>>>,
                        !.locals = LocalsJoystick]
    ELSE w

\* faulty variant: the loop does not stop at the first active renderer
RECURSIVE RenderersLoopNoBreak(_, _, _)
RenderersLoopNoBreak(w, i, raw) ==
    IF i > NumRenderers THEN w
    ELSE IF renderers[i] = "active"
         THEN RenderersLoopNoBreak(handle_input(w, raw), i + 1, raw)
    ELSE RenderersLoopNoBreak(w, i + 1, raw)

\* for (auto &w : window->renderers) if (w && w->isActiveWindow()) { ...; break; }
RECURSIVE RenderersLoop(_, _, _)
RenderersLoop(w, i, raw) ==
    IF i > NumRenderers THEN w
    ELSE IF renderers[i] = "active" THEN handle_input(w, raw)
    ELSE RenderersLoop(w, i + 1, raw)

\* nativeEventFilter(eventType, message, result): its return value and effects
nativeEventFilter(w, m) ==
    IF m.eventType = "windows_generic_MSG"
    THEN IF m.message = WM_INPUT
         THEN [ret |-> TRUE,
               w   |-> IF main_active /\ menus_open = 0
                       THEN handle_input(w, m.raw)
                       ELSE RenderersLoop(w, 1, m.raw)]
         ELSE IF m.message = WM_SYSKEYDOWN /\ m.wParam = VK_F4
              THEN [ret |-> TRUE, w |-> w]
              ELSE [ret |-> FALSE, w |-> w]
    ELSE [ret |-> FALSE, w |-> w]

(***************************************************************************)
(* The inputs of the model                                                 *)
(***************************************************************************)
\* make codes: 0x00, 0x1D, 0x1E, 0x38, 0x11D, 0x21D, 0xFFFF
KeyMakeCodes == {0, 29, 30, 56, 285, 541, 65535}

RawKeyboards == {RAWKEYBOARD(mc, f) : mc \in KeyMakeCodes, f \in 0..7}

\* table slots the model remaps: 0x1D, 0x100 (E1 1D), 0x11D
\* values a remapped slot takes: 0x11D, 0x038, 0x1E, 0xFFFF
MapValues == {285, 56, 30, 65535}

IdentityMap == [c \in 0..(ScancodeMapLen - 1) |-> c]

ScancodeMaps ==
    {[c \in 0..(ScancodeMapLen - 1) |->
        IF c = 29 THEN a ELSE IF c = 256 THEN b ELSE IF c = 285 THEN d ELSE c] :
     a \in {29} \cup MapValues, b \in {256} \cup MapValues, d \in {285} \cup MapValues}

ButtonFlagPairs ==
    {<<RI_MOUSE_LEFT_BUTTON_DOWN, RI_MOUSE_LEFT_BUTTON_UP>>,
     <<RI_MOUSE_RIGHT_BUTTON_DOWN, RI_MOUSE_RIGHT_BUTTON_UP>>,
     <<RI_MOUSE_MIDDLE_BUTTON_DOWN, RI_MOUSE_MIDDLE_BUTTON_UP>>,
     <<RI_MOUSE_BUTTON_4_DOWN, RI_MOUSE_BUTTON_4_UP>>,
     <<RI_MOUSE_BUTTON_5_DOWN, RI_MOUSE_BUTTON_5_UP>>}

OneButtonFlags(p) == {0, p[1], p[2], p[1] + p[2]}

\* every combination of the flags of one or two buttons, and the reports that
\* name all five buttons at once (all DOWN: 0x155, all UP: 0x2AA, both: 0x3FF)
ButtonFlagValues ==
    {BitOr(a, b) : a \in UNION {OneButtonFlags(p) : p \in ButtonFlagPairs},
                   b \in UNION {OneButtonFlags(p) : p \in ButtonFlagPairs}}
    \cup {341, 682, 1023}

\* usButtonData: 0, 119, 120, 240, 0x7FFF, 0x8000, -120, -119 as USHORT
WheelData == {0, 119, 120, 240, 32767, 32768, 65416, 65417}

\* (lLastX, lLastY) samples; absolute coordinates are normalised to 0..65535
Samples == {<<1000, 1000>>, <<1050, 975>>, <<990, 1012>>, <<-30, 65535>>}

\* reports about buttons: any of the flag combinations, a relative motion
ButtonReports == {RAWMOUSE(0, bf, 0, 3, -2) : bf \in ButtonFlagValues}

\* reports about the wheel: the flag set or not, with and without a button
WheelFlagValues == {0, RI_MOUSE_WHEEL, RI_MOUSE_WHEEL + RI_MOUSE_LEFT_BUTTON_DOWN}

WheelReports == {RAWMOUSE(0, bf, d, 0, 0) : bf \in WheelFlagValues, d \in WheelData}

\* reports about motion: usFlags 0..3 (bit 0 is MOUSE_MOVE_ABSOLUTE)
MotionFlagValues == {0, RI_MOUSE_WHEEL + RI_MOUSE_LEFT_BUTTON_DOWN}

MotionReports ==
    {RAWMOUSE(f, bf, 240, s[1], s[2]) :
        f \in 0..3, bf \in MotionFlagValues, s \in Samples}

WindowRects == {RECT(0, 0, 640, 480), RECT(-101, 33, 700, 514)}

\* a WM_INPUT message whose lParam names the raw input `raw'
InputMsg(raw) == MSG("windows_generic_MSG", WM_INPUT, 0, raw)

\* a HID report, a report of a device type that is none of the three (3), and
\* a report GetRawInputData fails to read
OtherRawInputs ==
    {RAWINPUT(TRUE, RIM_TYPEHID, NoData),
     RAWINPUT(TRUE, 3, NoData),
     RAWINPUT(FALSE, RIM_TYPEKEYBOARD, RAWKEYBOARD(30, 0))}

EventTypes == {"windows_generic_MSG", "windows_dispatcher_MSG"}
\* WM_INPUT, WM_SYSKEYDOWN and WM_KEYDOWN (0x0100), which the filter ignores
Messages == {WM_INPUT, WM_SYSKEYDOWN, 256}
\* F4 and F5 (0x74)
WParams == {VK_F4, 116}

OtherMessages ==
    {MSG(et, mm, wp, RAWINPUT(TRUE, RIM_TYPEKEYBOARD, RAWKEYBOARD(30, 0))) :
        et \in EventTypes, mm \in Messages, wp \in WParams}
    \ {InputMsg(RAWINPUT(TRUE, RIM_TYPEKEYBOARD, RAWKEYBOARD(30, 0)))}

RendererStates == {"null", "inactive", "active"}

(***************************************************************************)
(* Actions                                                                 *)
(***************************************************************************)
Config == <<scancode_map, rctrl_is_lalt>>
Focus == <<menus_open, main_active, renderers>>

\* One call of nativeEventFilter on message m
Dispatch(m) ==
    /\ msg = NoMsg
    /\ LET r == nativeEventFilter(World, m)
       IN  /\ msg' = m
           /\ ret' = r.ret
           /\ calls' = r.w.calls
           /\ locals' = r.w.locals
           /\ mouse_buttons' = r.w.mouse_buttons
           /\ x' = r.w.x
           /\ y' = r.w.y
           /\ last_abs' = r.w.last_abs
    /\ UNCHANGED <<Config, Focus, mouse_capture, window_rect>>

KeyboardInput ==
    \E kb \in RawKeyboards :
        Dispatch(InputMsg(RAWINPUT(TRUE, RIM_TYPEKEYBOARD, kb)))

\* a WM_INPUT message carrying the mouse report m
MouseMsg(m) == InputMsg(RAWINPUT(TRUE, RIM_TYPEMOUSE, m))

MouseButtonInput == \E m \in ButtonReports : Dispatch(MouseMsg(m))

MouseWheelInput == \E m \in WheelReports : Dispatch(MouseMsg(m))

MouseMotionInput == \E m \in MotionReports : Dispatch(MouseMsg(m))

\* HID reports, reports of an unknown device type, reports that cannot be read
OtherInput == \E raw \in OtherRawInputs : Dispatch(InputMsg(raw))

\* Messages that are not a WM_INPUT of the generic event type
OtherMessage == \E m \in OtherMessages : Dispatch(m)

\* nativeEventFilter has returned: the next message can be dispatched
DispatchReturn ==
    /\ msg # NoMsg
    /\ msg' = NoMsg
    /\ calls' = <<>>
    /\ locals' = NoLocals
    /\ ret' = FALSE
    /\ UNCHANGED <<Config, Focus, mouse_capture, window_rect, mouse_buttons,
                   x, y, last_abs>>

Idle == msg = NoMsg
Observed == <<msg, calls, locals, ret>>
MouseState == <<mouse_buttons, x, y, last_abs>>

\* connect(menu, &QMenu::aboutToShow, ...): menus_open++
MenuAboutToShow ==
    /\ Idle
    /\ menus_open < MaxMenus
    /\ menus_open' = menus_open + 1
    /\ UNCHANGED <<Config, main_active, renderers, mouse_capture, window_rect,
                   MouseState, Observed>>

\* connect(menu, &QMenu::aboutToHide, ...): menus_open--; the counter is
\* decremented whatever it holds, below 0 as well
MenuAboutToHide ==
    /\ Idle
    /\ menus_open > -MaxMenus
    /\ menus_open' = menus_open - 1
    /\ UNCHANGED <<Config, main_active, renderers, mouse_capture, window_rect,
                   MouseState, Observed>>

\* The window system activates or deactivates the main window
MainActivation ==
    /\ Idle
    /\ main_active' = ~main_active
    /\ UNCHANGED <<Config, menus_open, renderers, mouse_capture, window_rect,
                   MouseState, Observed>>

\* A renderer window is created, destroyed, activated or deactivated
RendererChange ==
    /\ Idle
    /\ \E i \in 1..NumRenderers, s \in RendererStates :
          /\ renderers[i] # s
          /\ renderers' = [renderers EXCEPT ![i] = s]
    /\ UNCHANGED <<Config, menus_open, main_active, mouse_capture, window_rect,
                   MouseState, Observed>>

\* The emulator captures or releases the pointer
SetMouseCapture ==
    /\ Idle
    /\ mouse_capture' = ~mouse_capture
    /\ UNCHANGED <<Config, Focus, window_rect, MouseState, Observed>>

\* The main window is moved or resized
WindowMoved ==
    /\ Idle
    /\ \E r \in WindowRects : r # window_rect /\ window_rect' = r
    /\ UNCHANGED <<Config, Focus, mouse_capture, MouseState, Observed>>

(***************************************************************************)
(* Specifications                                                          *)
(***************************************************************************)
\* After construction: nothing dispatched yet, statics zero, main window active
InitRest ==
    /\ mouse_capture = FALSE
    /\ menus_open = 0
    /\ main_active = TRUE
    /\ renderers = [i \in 1..NumRenderers |-> "inactive"]
    /\ window_rect = RECT(0, 0, 640, 480)
    /\ mouse_buttons = 0
    /\ x = 0
    /\ y = 0
    /\ last_abs = <<>>
    /\ msg = NoMsg
    /\ calls = <<>>
    /\ locals = NoLocals
    /\ ret = FALSE

Init ==
    /\ scancode_map = IdentityMap
    /\ rctrl_is_lalt = FALSE
    /\ InitRest

\* Any remap table of the family and either setting of the Ctrl->Alt flag
InitKbd ==
    /\ scancode_map \in ScancodeMaps
    /\ rctrl_is_lalt \in BOOLEAN
    /\ InitRest

NextKbd == KeyboardInput \/ DispatchReturn

NextMouse ==
    \/ MouseButtonInput
    \/ MouseWheelInput
    \/ MouseMotionInput
    \/ SetMouseCapture
    \/ WindowMoved
    \/ DispatchReturn

NextCapture ==
    \/ KeyboardInput
    \/ MouseButtonInput
    \/ MouseWheelInput
    \/ MouseMotionInput
    \/ SetMouseCapture
    \/ DispatchReturn

NextFilter ==
    \/ KeyboardInput
    \/ MouseWheelInput
    \/ OtherInput
    \/ OtherMessage
    \/ MenuAboutToShow
    \/ MenuAboutToHide
    \/ MainActivation
    \/ RendererChange
    \/ SetMouseCapture
    \/ DispatchReturn

Next ==
    \/ KeyboardInput
    \/ MouseButtonInput
    \/ MouseWheelInput
    \/ MouseMotionInput
    \/ OtherInput
    \/ OtherMessage
    \/ MenuAboutToShow
    \/ MenuAboutToHide
    \/ MainActivation
    \/ RendererChange
    \/ SetMouseCapture
    \/ WindowMoved
    \/ DispatchReturn

\* Keyboard reports under every remap table of the family
SpecKbd == InitKbd /\ [][NextKbd]_vars

\* Mouse reports with the pointer captured or not, the window moving
SpecMouse == Init /\ [][NextMouse]_vars

\* Keyboard and mouse reports with the pointer captured or not
SpecCapture == Init /\ [][NextCapture]_vars

\* Every kind of message while menus open and close and the windows are
\* activated and deactivated
SpecFilter == Init /\ [][NextFilter]_vars

\* Every message and every change of the environment
Spec == Init /\ [][Next]_vars

(***************************************************************************)
(* What a dispatch shows: the report it decoded and the calls it made      *)
(***************************************************************************)
CallsTo(name) == SelectSeq(calls, LAMBDA c : c[1] = name)

KeyCalls == CallsTo("keyboard_input")

KbdHandled == locals.handler = "keyboard_handle"
MouseHandled == locals.handler = "mouse_handle"

\* the report of the message being dispatched
Report == msg.raw.data

\* the flags of a keyboard report, read off the Flags field bit by bit
IsBreak == Report.Flags % 2 = 1
IsE0 == (Report.Flags \div 2) % 2 = 1
IsE1 == (Report.Flags \div 4) % 2 = 1
Pressed == IF IsBreak THEN 0 ELSE 1

\* makeCode | 0x100 when E0 is set, makeCode otherwise
MakeWithE0 ==
    IF IsE0 /\ (Report.MakeCode \div 256) % 2 = 0
    THEN Report.MakeCode + 256
    ELSE Report.MakeCode

\* exactly one event, with this scan code and pressed = not isBreak
EmitsOnly(code) == KeyCalls = <<<<"keyboard_input", Pressed, code>>>>

(***************************************************************************)
(* Keyboard decoder                                                        *)
(***************************************************************************)
\* C1: keyboard_input is never called with scan code 0xFFFF; a report whose
\* decoding ends with 0xFFFF, on the E1 or the normal branch, calls
\* keyboard_input not at all.
C1_SentinelSuppressed ==
    /\ \A i \in 1..Len(calls) :
          calls[i][1] = "keyboard_input" => calls[i][3] # 65535
    /\ (KbdHandled /\ locals.scancode = 65535) => KeyCalls = <<>>

\* C1 witness: a normal report of make code 0x1D that the table maps to 0xFFFF
C1_Witness ==
    /\ KbdHandled /\ ~IsE1 /\ ~IsE0
    /\ Report.MakeCode = 29
    /\ scancode_map[29] = 65535
    /\ locals.scancode = 65535
    /\ KeyCalls = <<>>

\* C2: a non-E1 report of canonical code 0x11D (make code 0x1D with E0) with
\* the Ctrl->Alt flag enabled emits 0x038, whatever scancode_map[0x11D] holds.
C2_AsStated ==
    (KbdHandled /\ ~IsE1 /\ IsE0 /\ Report.MakeCode = 29 /\ rctrl_is_lalt)
        => EmitsOnly(56)

\* C3: on every path, a report whose code after the remap lookup is 0x11D emits
\* 0x038, never 0x11D, when the Ctrl->Alt flag is enabled.  The code after the
\* lookup is scancode_map[0x100] for E1 1D and the remapped canonical code
\* otherwise.
C3_CtrlAltOnEveryPath ==
    (KbdHandled /\ rctrl_is_lalt
     /\ IF IsE1 THEN Report.MakeCode = 29 /\ scancode_map[256] = 285
                ELSE locals.remapped = 285)
        => EmitsOnly(56)

\* C4: an E1 report whose make code is not 0x1D calls neither keyboard_input
\* nor checkFullscreenHotkey.
C4_E1OtherMakeDropped ==
    (KbdHandled /\ IsE1 /\ Report.MakeCode # 29) => calls = <<>>

\* C4 witness: E1 with E0 and break set, make code 0x1E, slot 0x100 remapped
C4_Witness ==
    /\ KbdHandled /\ IsE1 /\ IsE0 /\ IsBreak
    /\ Report.MakeCode = 30
    /\ scancode_map[256] = 56
    /\ calls = <<>>

\* C5: an E1 1D report is decoded through slot 0x100 of the table: when the
\* slot does not hold 0xFFFF exactly one event is emitted, with pressed = not
\* isBreak and the slot's value, and 0x1D or 0x11D is emitted only when it is
\* the slot's value.
C5_E1LookedUp ==
    (KbdHandled /\ IsE1 /\ Report.MakeCode = 29)
        => IF scancode_map[256] # 65535
           THEN /\ EmitsOnly(scancode_map[256])
                /\ scancode_map[256] \notin {29, 285}
                      => \A i \in 1..Len(calls) : calls[i][3] \notin {29, 285}
           ELSE KeyCalls = <<>>

\* C5 witness: E1 1D pressed with slot 0x100 remapped to 0x1E
C5_Witness ==
    /\ KbdHandled /\ IsE1 /\ ~IsBreak
    /\ Report.MakeCode = 29
    /\ scancode_map[256] = 30
    /\ calls = <<<<"keyboard_input", 1, 30>>>>

\* C6 as stated: the canonical code of a non-E1 report is makeCode | 0x100
\* with E0 and makeCode without, and it is below 0x200 for every make code.
C6_AsStated ==
    (KbdHandled /\ ~IsE1)
        => /\ locals.canonical = MakeWithE0
           /\ locals.canonical < 512

\* C6 amended: the code formed from a non-E1 report, before conversion, is
\* makeCode | 0x100 with E0 and makeCode without; it is below 0x200 exactly
\* when makeCode is below 0x200.
C6_PrefixedCode ==
    (KbdHandled /\ ~IsE1)
        => /\ locals.prefixed = MakeWithE0
           /\ (locals.prefixed < 512) <=> (Report.MakeCode < 512)

\* C6 witness: make code 0x11D with E0 (bit 0x100 already set) stays 0x11D
C6_Witness ==
    /\ KbdHandled /\ ~IsE1 /\ IsE0
    /\ Report.MakeCode = 285
    /\ locals.prefixed = 285

\* C7: under the identity table the code after the remap step is the canonical
\* code (0x100 for E1 1D, makeCode | E0 bit otherwise), and with the Ctrl->Alt
\* flag disabled the emitted scan code is the canonical code.
C7_IdentityRemap ==
    (KbdHandled /\ scancode_map = IdentityMap)
        => IF IsE1
           THEN Report.MakeCode = 29 => locals.scancode = 256 /\ EmitsOnly(256)
           ELSE /\ locals.canonical = MakeWithE0
                /\ locals.remapped = locals.canonical
                /\ ~rctrl_is_lalt
                      => IF MakeWithE0 = 65535 THEN KeyCalls = <<>>
                         ELSE EmitsOnly(MakeWithE0)

\* C7 witness: right CTRL pressed under the identity table, flag disabled
C7_Witness ==
    /\ KbdHandled /\ ~IsE1 /\ IsE0 /\ ~IsBreak
    /\ Report.MakeCode = 29
    /\ scancode_map = IdentityMap
    /\ ~rctrl_is_lalt
    /\ KeyCalls = <<<<"keyboard_input", 1, 285>>>>

\* C17 as stated: a non-E1 report whose canonical code is at or above the
\* length of the table skips the remap and emits exactly one event with that
\* code and pressed = not isBreak.
C17_AsStated ==
    (KbdHandled /\ ~IsE1 /\ locals.canonical >= 512)
        => /\ locals.remapped = locals.canonical
           /\ EmitsOnly(locals.canonical)

\* C17 amended: such a report skips the remap and the Ctrl->Alt rule and emits
\* exactly one event with that code and pressed = not isBreak, except that the
\* canonical code 0xFFFF is the invalid code and emits no event.
C17_OutOfRangePassThrough ==
    (KbdHandled /\ ~IsE1 /\ locals.canonical >= 512)
        => /\ locals.remapped = locals.canonical
           /\ locals.scancode = locals.canonical
           /\ IF locals.canonical = 65535 THEN KeyCalls = <<>>
              ELSE EmitsOnly(locals.canonical)

\* C17 witness: make code 0x21D with E0, released, under a table that remaps
\* 0x1D and 0x11D and with the Ctrl->Alt flag enabled: 0x31D is emitted
C17_Witness ==
    /\ KbdHandled /\ ~IsE1 /\ IsE0 /\ IsBreak
    /\ Report.MakeCode = 541
    /\ scancode_map[29] = 30 /\ scancode_map[285] = 56
    /\ rctrl_is_lalt
    /\ locals.canonical = 797
    /\ calls = <<<<"keyboard_input", 0, 797>>, <<"checkFullscreenHotkey">>>>

\* C18: a non-E1 report calls checkFullscreenHotkey exactly once, as the last
\* call of its handling (after keyboard_input, if that is called), pressed or
\* released, also when the code is 0xFFFF and no event is emitted; an E1
\* report, make code 0x1D included, does not call it.
C18_HotkeyNotified ==
    KbdHandled
        => IF IsE1 THEN CallsTo("checkFullscreenHotkey") = <<>>
           ELSE /\ Len(CallsTo("checkFullscreenHotkey")) = 1
                /\ calls[Len(calls)] = <<"checkFullscreenHotkey">>
                /\ Len(calls) = 1 + Len(KeyCalls)
                /\ Len(KeyCalls) = IF locals.scancode = 65535 THEN 0 ELSE 1

\* C18 witness: key 0x1D released, remapped to 0xFFFF by the table: no event,
\* one hotkey check
C18_Witness ==
    /\ KbdHandled /\ ~IsE1 /\ ~IsE0 /\ IsBreak
    /\ Report.MakeCode = 29
    /\ scancode_map[29] = 65535
    /\ calls = <<<<"checkFullscreenHotkey">>>>

(***************************************************************************)
(* Mouse decoder                                                           *)
(***************************************************************************)
\* bit `bit' (a power of two) of mask m, read off arithmetically
Bit(m, bit) == (m \div bit) % 2

\* q is s / d under C's division, which truncates toward zero (d > 0)
TruncQuot(s, d, q) ==
    IF s >= 0 THEN q >= 0 /\ d * q <= s /\ s < d * (q + 1)
    ELSE q <= 0 /\ d * q >= s /\ s > d * (q - 1)

\* <<DOWN flag, UP flag, mask bit>> of left, right, middle, button 4, button 5
ButtonTable ==
    {<<1, 2, 1>>, <<4, 8, 2>>, <<16, 32, 4>>, <<64, 128, 8>>, <<256, 512, 16>>}

\* the mask read from mouse_get_buttons_ex and the one written back
PriorMask == CallsTo("mouse_get_buttons_ex")[1][2]
WrittenMask == CallsTo("mouse_set_buttons_ex")[1][2]

\* C8 as stated: for each button the written mask has the bit set if the DOWN
\* flag is in the report, cleared if the UP flag is in the report, and equal to
\* the prior bit if neither is, for every combination of flags.
C8_AsStated ==
    MouseHandled
        => /\ Len(CallsTo("mouse_set_buttons_ex")) = 1
           /\ \A t \in ButtonTable :
                 /\ Bit(Report.usButtonFlags, t[1]) = 1 => Bit(WrittenMask, t[3]) = 1
                 /\ Bit(Report.usButtonFlags, t[2]) = 1 => Bit(WrittenMask, t[3]) = 0
                 /\ (Bit(Report.usButtonFlags, t[1]) = 0
                     /\ Bit(Report.usButtonFlags, t[2]) = 0)
                        => Bit(WrittenMask, t[3]) = Bit(PriorMask, t[3])

\* C8 amended: the bit is set if the DOWN flag is in the report, cleared if the
\* UP flag is in the report and the DOWN flag is not, and equal to the prior bit
\* if neither is; a report with both flags of a button sets the bit.  The mask
\* is read once, written once, and the written mask is the emulated one.
C8_ButtonMask ==
    MouseHandled
        => /\ Len(CallsTo("mouse_get_buttons_ex")) = 1
           /\ Len(CallsTo("mouse_set_buttons_ex")) = 1
           /\ mouse_buttons = WrittenMask
           /\ WrittenMask \in 0..31
           /\ \A t \in ButtonTable :
                 /\ Bit(Report.usButtonFlags, t[1]) = 1 => Bit(WrittenMask, t[3]) = 1
                 /\ (Bit(Report.usButtonFlags, t[2]) = 1
                     /\ Bit(Report.usButtonFlags, t[1]) = 0)
                        => Bit(WrittenMask, t[3]) = 0
                 /\ (Bit(Report.usButtonFlags, t[1]) = 0
                     /\ Bit(Report.usButtonFlags, t[2]) = 0)
                        => Bit(WrittenMask, t[3]) = Bit(PriorMask, t[3])

\* C8 witness: prior mask right+middle; the report carries left DOWN and UP and
\* right UP: left is set, right cleared, middle kept
C8_Witness ==
    /\ MouseHandled
    /\ Report.usButtonFlags = 11
    /\ PriorMask = 6
    /\ WrittenMask = 5
    /\ mouse_buttons = 5

\* C9: with the wheel flag set, mouse_set_z is called once with the button data
\* read as a signed 16-bit value and divided by 120, truncating toward zero
\* (240 -> 2, -120 -> -1, 119 -> 0, -119 -> 0); without the flag the wheel
\* delta is 0 whatever the button data, and mouse_set_z is not called.
C9_WheelDelta ==
    MouseHandled
        => LET d == Report.usButtonData
               s == IF d >= 32768 THEN d - 65536 ELSE d
               zcalls == CallsTo("mouse_set_z")
           IN  IF Bit(Report.usButtonFlags, 1024) = 1
               THEN /\ Len(zcalls) = 1
                    /\ locals.delta_z = zcalls[1][2]
                    /\ TruncQuot(s, 120, zcalls[1][2])
                    /\ d = 240 => zcalls[1][2] = 2
                    /\ d = 65416 => zcalls[1][2] = -1
                    /\ d = 119 => zcalls[1][2] = 0
                    /\ d = 65417 => zcalls[1][2] = 0
               ELSE /\ zcalls = <<>>
                    /\ locals.delta_z = 0

\* C9 witness: wheel flag set, button data 0xFF89 (-119): mouse_set_z(0)
C9_Witness ==
    /\ MouseHandled
    /\ Report.usButtonFlags = 1024
    /\ Report.usButtonData = 65417
    /\ CallsTo("mouse_set_z") = <<<<"mouse_set_z", 0>>>>

\* C10: an absolute-mode report handled after an earlier absolute-mode report
\* with sample (px,py) passes dx = (cx - px) / 25 and dy = (cy - py) / 25 to
\* mouse_scale, truncating toward zero ((1000,1000) then (1050,975) gives 2 and
\* -1), and the stored sample becomes (cx,cy).
C10_AbsoluteDelta ==
    (MouseHandled /\ Report.usFlags % 2 = 1 /\ locals.prev_abs # <<>>)
        => LET px == locals.prev_abs[1]
               py == locals.prev_abs[2]
               sc == CallsTo("mouse_scale")
           IN  /\ Len(sc) = 1
               /\ TruncQuot(Report.lLastX - px, 25, sc[1][2])
               /\ TruncQuot(Report.lLastY - py, 25, sc[1][3])
               /\ (px = 1000 /\ py = 1000 /\ Report.lLastX = 1050
                   /\ Report.lLastY = 975) => sc[1][2] = 2 /\ sc[1][3] = -1
               /\ x = Report.lLastX
               /\ y = Report.lLastY

\* C10 witness: (1000,1000) then (990,1012): differences -10 and 12 give 0, 0
C10_Witness ==
    /\ MouseHandled
    /\ Report.usFlags = 1
    /\ locals.prev_abs = <<1000, 1000>>
    /\ Report.lLastX = 990 /\ Report.lLastY = 1012
    /\ CallsTo("mouse_scale") = <<<<"mouse_scale", 0, 0>>>>
    /\ x = 990 /\ y = 1012

\* a handled mouse report in relative mode, in absolute mode
RelativeHandled == MouseHandled /\ Report.usFlags % 2 = 0
AbsoluteHandled == MouseHandled /\ Report.usFlags % 2 = 1

\* C11: a handled report without MOUSE_MOVE_ABSOLUTE passes its lLastX and
\* lLastY to mouse_scale as they are, in one call, whatever was handled before
\* and whatever sample is stored.
C11_RelativeDelta ==
    RelativeHandled
        => /\ CallsTo("mouse_scale")
                 = <<<<"mouse_scale", Report.lLastX, Report.lLastY>>>>
           /\ locals.delta_x = Report.lLastX
           /\ locals.delta_y = Report.lLastY

\* C11 witness: (1000,1000) is stored and a relative report carries 1050, 975
C11_Witness ==
    /\ RelativeHandled
    /\ x = 1000 /\ y = 1000
    /\ locals.prev_abs = <<1000, 1000>>
    /\ Report.lLastX = 1050 /\ Report.lLastY = 975
    /\ CallsTo("mouse_scale") = <<<<"mouse_scale", 1050, 975>>>>

\* C19: the handling of a relative-mode report leaves the stored sample as it
\* was: after it the stored sample is still the sample of the last
\* absolute-mode report handled, from which the next absolute-mode report is
\* measured, however many relative reports came in between.
C19_RelativeKeepsSample ==
    [][(msg = NoMsg /\ RelativeHandled')
          => /\ x' = x
             /\ y' = y
             /\ last_abs # <<>> => <<x', y'>> = last_abs]_vars

\* C19 witness: (1050,975) is stored; a relative report carrying (990,1012)
\* with the wheel and left DOWN flags has been handled and it still is
C19_Witness ==
    /\ RelativeHandled
    /\ Report.usButtonFlags = 1025
    /\ Report.lLastX = 990 /\ Report.lLastY = 1012
    /\ locals.prev_abs = <<1050, 975>>
    /\ x = 1050 /\ y = 975
    /\ CallsTo("mouse_scale") = <<<<"mouse_scale", 990, 1012>>>>

(***************************************************************************)
(* handle_input                                                            *)
(***************************************************************************)
\* the message being dispatched is a WM_INPUT of the generic event type whose
\* raw input was read
InputRead ==
    /\ msg.kind = "msg"
    /\ msg.eventType = "windows_generic_MSG"
    /\ msg.message = 255
    /\ msg.raw.ok

\* ... and it is a mouse report, a keyboard report
MouseReport == InputRead /\ msg.raw.dwType = 0
KbdReport == InputRead /\ msg.raw.dwType = 1

\* C13: a handled absolute-mode report calls SetCursorPos once, as the call
\* right after mouse_scale and the last of the dispatch, with
\* (left + (right - left) / 2, top + (bottom - top) / 2) of the window's
\* rectangle, the quotients truncated, whether dx and dy are zero or not.
C13_RecenterOnAbsolute ==
    AbsoluteHandled
        => LET n == Len(calls)
           IN  /\ Len(CallsTo("SetCursorPos")) = 1
               /\ Len(CallsTo("mouse_scale")) = 1
               /\ n >= 2
               /\ calls[n][1] = "SetCursorPos"
               /\ calls[n - 1][1] = "mouse_scale"
               /\ TruncQuot(window_rect.right - window_rect.left, 2,
                            calls[n][2] - window_rect.left)
               /\ TruncQuot(window_rect.bottom - window_rect.top, 2,
                            calls[n][3] - window_rect.top)

\* C13 witness: the window is at (-101,33)-(700,514); an absolute report gives
\* dx = dy = 0 and the cursor goes to (299,273)
C13_Witness ==
    /\ AbsoluteHandled
    /\ window_rect.left = -101 /\ window_rect.bottom = 514
    /\ locals.prev_abs = <<1000, 1000>>
    /\ Report.lLastX = 990 /\ Report.lLastY = 1012
    /\ Len(calls) >= 2
    /\ calls[Len(calls) - 1] = <<"mouse_scale", 0, 0>>
    /\ calls[Len(calls)] = <<"SetCursorPos", 299, 273>>

\* C14: SetCursorPos is called only while a report with the absolute flag is
\* processed; a handled relative-mode report does not call it.
C14_AsStated ==
    /\ RelativeHandled => CallsTo("SetCursorPos") = <<>>
    /\ CallsTo("SetCursorPos") # <<>> => AbsoluteHandled

\* C15: the first absolute-mode report handled since the start passes dx = 0
\* and dy = 0 to mouse_scale, whatever its sample.
C15_FirstAbsoluteZero ==
    (AbsoluteHandled /\ locals.prev_abs = <<>>)
        => CallsTo("mouse_scale") = <<<<"mouse_scale", 0, 0>>>>

\* C16: the stored sample is the sample of the last absolute-mode mouse
\* report delivered to handle_input, whether the pointer was captured when it
\* was delivered or not.
C16_TrackedWhileReleased ==
    (MouseReport /\ Report.usFlags % 2 = 1)
        => x = Report.lLastX /\ y = Report.lLastY

\* the calls a keyboard report makes under the identity table with the
\* Ctrl->Alt flag disabled, read off the report
IdentityKeyCalls ==
    IF IsE1
    THEN IF Report.MakeCode = 29
         THEN <<<<"keyboard_input", Pressed, 256>>>>
         ELSE <<>>
    ELSE (IF MakeWithE0 = 65535 THEN <<>>
          ELSE <<<<"keyboard_input", Pressed, MakeWithE0>>>>)
         \o <<<<"checkFullscreenHotkey">>>>

\* C12: while mouse_capture is false the dispatch of a mouse report makes no
\* call at all (so none to mouse_set_buttons_ex, mouse_set_z, mouse_scale) and
\* leaves the emulated button mask and the stored sample as they were; the
\* dispatch of a keyboard report makes the calls its decoding gives, the same
\* with mouse_capture false and true.
C12_CaptureGating ==
    [][(msg = NoMsg /\ msg' # NoMsg)
          => /\ (MouseReport' /\ ~mouse_capture)
                   => /\ calls' = <<>>
                      /\ locals' = NoLocals
                      /\ UNCHANGED <<mouse_buttons, x, y, last_abs>>
             /\ KbdReport' => (calls = IdentityKeyCalls)']_vars

\* C12 witness: (1000,1000) was stored while the pointer was captured; now it
\* is not, and an absolute report with the wheel and left DOWN flags and
\* sample (1050,975) makes no call and changes nothing
C12_Witness ==
    /\ MouseReport
    /\ ~mouse_capture
    /\ Report.usFlags = 1 /\ Report.usButtonFlags = 1025
    /\ Report.lLastX = 1050 /\ Report.lLastY = 975
    /\ mouse_buttons = 0
    /\ x = 1000 /\ y = 1000
    /\ calls = <<>>

(***************************************************************************)
(* nativeEventFilter                                                       *)
(***************************************************************************)
\* the main window is active with no menu open, or a renderer window is active
Gate ==
    \/ main_active /\ menus_open = 0
    \/ \E i \in 1..NumRenderers : renderers[i] = "active"

\* the message being dispatched is of the generic event type, the one whose
\* payload the filter reads as a Windows message
GenericMsg == msg.kind = "msg" /\ msg.eventType = "windows_generic_MSG"

\* what one run of handle_input on the message's raw input shows
HandledOnce ==
    IF ~msg.raw.ok THEN calls = <<>>
    ELSE IF msg.raw.dwType = 1 THEN KbdHandled /\ calls = IdentityKeyCalls
    ELSE IF msg.raw.dwType = 0
         THEN IF mouse_capture
              THEN /\ MouseHandled
                   /\ Len(CallsTo("mouse_set_buttons_ex")) = 1
                   /\ Len(CallsTo("mouse_set_z")) <= 1
                   /\ Len(CallsTo("mouse_scale")) = 1
                   /\ Len(CallsTo("SetCursorPos")) = 1
              ELSE calls = <<>>
    ELSE IF msg.raw.dwType = 2 THEN calls = <<<<"win_joystick_handle">>>>
    ELSE calls = <<>>

\* C20: a WM_INPUT message returns true, decoded or not; handle_input runs on
\* it once when the main window is active and no menu is open, or otherwise
\* when at least one renderer window is active (once even when several are),
\* and not at all when neither holds: then no call is made.  WM_SYSKEYDOWN
\* with wParam 0x73 returns true and makes no call.  Every other message
\* returns false and makes no call; a message of another event type is not
\* read as a Windows message and is among these.
C20_FilterGating ==
    msg # NoMsg
        => IF GenericMsg /\ msg.message = 255
           THEN /\ ret = TRUE
                /\ IF Gate THEN HandledOnce
                   ELSE calls = <<>> /\ locals = NoLocals
           ELSE IF GenericMsg /\ msg.message = 260 /\ msg.wParam = 115
           THEN ret = TRUE /\ calls = <<>> /\ locals = NoLocals
           ELSE ret = FALSE /\ calls = <<>> /\ locals = NoLocals

\* C20 witness: a menu is open over the active main window and both renderer
\* windows are active; key 0x1E pressed is decoded once
C20_Witness ==
    /\ KbdReport
    /\ main_active /\ menus_open = 1
    /\ renderers[1] = "active" /\ renderers[2] = "active"
    /\ Report.MakeCode = 30 /\ Report.Flags = 0
    /\ ret = TRUE
    /\ calls = <<<<"keyboard_input", 1, 30>>, <<"checkFullscreenHotkey">>>>

=============================================================================
